---- MODULE Spec2Model ----
(***************************************************************************)
(* Model of the Dash application "Spatial Spots Painter" (src/app.py).     *)
(*                                                                         *)
(* The browser-side state of the page is the state of the model: the four  *)
(* dcc.Store / DataTable properties the callbacks read and write, the      *)
(* figure shown by the graph, and the last download.  Every callback is    *)
(* one action.  Text that the code parses (group names, CSV cells, CSV     *)
(* header names) is a sequence of one-character strings, so that split(),  *)
(* int(), lower() and str() are computed and not assumed.  Text the code   *)
(* only copies (colours, custom names) is an atomic string.                *)
(***************************************************************************)
EXTENDS Integers, Sequences, FiniteSets, TLC

\* ---------------------------------------------------------------- bounds
\* Number of selection gestures in one behaviour.
MaxGestures == 2

\* ------------------------------------------------------------ text model
Digits == <<"0", "1", "2", "3", "4", "5", "6", "7", "8", "9">>

IsDigit(c) == \E d \in 1..10 : Digits[d] = c

DigitVal(c) == (CHOOSE d \in 1..10 : Digits[d] = c) - 1

\* str(n) for a natural number: its decimal digits.
RECURSIVE ToDigits(_)
ToDigits(n) == IF n < 10 THEN <<Digits[n + 1]>>
               ELSE ToDigits(n \div 10) \o <<Digits[(n % 10) + 1]>>

\* Value of a non-empty sequence of decimal digits.
RECURSIVE DigitsVal(_)
DigitsVal(s) == IF Len(s) = 0 THEN 0
                ELSE 10 * DigitsVal(SubSeq(s, 1, Len(s) - 1)) + DigitVal(s[Len(s)])

AllDigits(s) == Len(s) > 0 /\ \A i \in 1..Len(s) : IsDigit(s[i])

\* Python int(token): optional sign, then decimal digits; anything else
\* raises ValueError (ok = FALSE).
PyInt(tok) ==
    IF AllDigits(tok) THEN [ok |-> TRUE, val |-> DigitsVal(tok)]
    ELSE IF Len(tok) > 1 /\ tok[1] = "-" /\ AllDigits(Tail(tok))
         THEN [ok |-> TRUE, val |-> 0 - DigitsVal(Tail(tok))]
    ELSE IF Len(tok) > 1 /\ tok[1] = "+" /\ AllDigits(Tail(tok))
         THEN [ok |-> TRUE, val |-> DigitsVal(Tail(tok))]
    ELSE [ok |-> FALSE, val |-> 0]

\* Python str.split() with no argument: the maximal runs of non-blank
\* characters, in order.
RECURSIVE SplitFrom(_, _, _)
SplitFrom(s, i, cur) ==
    IF i > Len(s) THEN (IF cur = <<>> THEN <<>> ELSE <<cur>>)
    ELSE IF s[i] = " "
         THEN (IF cur = <<>> THEN <<>> ELSE <<cur>>) \o SplitFrom(s, i + 1, <<>>)
         ELSE SplitFrom(s, i + 1, Append(cur, s[i]))

Split(s) == SplitFrom(s, 1, <<>>)

\* str.lower() on the letters the header names of the model use.
UpperLetters == <<"C", "E", "L", "I", "D", "X", "Y", "Z">>
LowerLetters == <<"c", "e", "l", "i", "d", "x", "y", "z">>

LowerChar(c) == IF \E k \in 1..Len(UpperLetters) : UpperLetters[k] = c
                THEN LowerLetters[CHOOSE k \in 1..Len(UpperLetters) : UpperLetters[k] = c]
                ELSE c

Lower(s) == [i \in 1..Len(s) |-> LowerChar(s[i])]

\* --------------------------------------------------------------- palettes
PaletteNames == {"Set3", "Paired", "Tableau10"}

PALETTES ==
    [p \in PaletteNames |->
        CASE p = "Set3" ->
               <<"#8DD3C7", "#FFFFB3", "#BEBADA", "#FB8072", "#80B1D3",
                 "#FDB462", "#B3DE69", "#FCCDE5", "#D9D9D9", "#BC80BD">>
          [] p = "Paired" ->
               <<"#A6CEE3", "#1F78B4", "#B2DF8A", "#33A02C", "#FB9A99",
                 "#E31A1C", "#FDBF6F", "#FF7F00", "#CAB2D6", "#6A3D9A">>
          [] p = "Tableau10" ->
               <<"#4E79A7", "#F28E2B", "#E15759", "#76B7B2", "#59A14F",
                 "#EDC948", "#B07AA1", "#FF9DA7", "#9C755F", "#BAB0AC">>]

UNASSIGNED_COLOR == "#A0A0A0"

DEFAULT_GROUPS == 10

\* f"Group {i+1}" for the 0-based i of the code; rows are 1-based here.
GroupName(k) == <<"G", "r", "o", "u", "p", " ">> \o ToDigits(k)

make_groups(palette) ==
    [k \in 1..DEFAULT_GROUPS |->
        [GroupName |-> GroupName(k), CustomName |-> "", Color |-> PALETTES[palette][k]]]

\* ------------------------------------------------------------- CSV files
\* An uploaded file after tokenisation: its lines, each a sequence of cells,
\* each cell the text between two commas.
T_a == <<"a">>
T_b == <<"b">>
T_q == <<"q">>
T_0 == <<"0">>
T_3 == <<"3">>
T_5 == <<"5">>
T_10 == <<"1", "0">>
H_Cell_ID == <<"C", "e", "l", "l", "_", "I", "D">>
H_X == <<"X">>
H_Y == <<"Y">>
H_Z == <<"Z">>

\* Two points of the example point set of the specification, canonical header.
FileCanon == << <<H_Cell_ID, H_X, H_Y>>,
                <<T_a, T_0, T_0>>, <<T_b, T_10, T_0>> >>

\* One point at (5,5); lower-case header, Y before X, one extra column.
FileSingle == << <<Lower(H_Y), Lower(H_Z), Lower(H_X), Lower(H_Cell_ID)>>,
                 <<T_5, T_q, T_5, T_b>> >>

\* No Y column.
FileNoY == << <<H_Cell_ID, H_X, H_Z>>, <<T_a, T_0, T_0>> >>

\* A non-numeric X cell.
FileTextX == << <<H_Cell_ID, H_X, H_Y>>, <<T_a, T_q, T_3>> >>

Uploads == {FileCanon, FileSingle, FileNoY, FileTextX}

\* Files with a header, made from a table of points in the canonical column
\* order: the header in one of three spellings, the columns in any order, a
\* column Z before or after them, and one of the three columns left out.
T_05 == <<"0", "5">>
H_CELL_ID == <<"C", "E", "L", "L", "_", "I", "D">>
CanonNames == <<H_Cell_ID, H_X, H_Y>>
HeaderNames == {CanonNames,
                <<Lower(H_Cell_ID), Lower(H_X), Lower(H_Y)>>,
                <<H_CELL_ID, Lower(H_X), H_Y>>}
PointTables == { << <<T_a, T_0, T_0>>, <<T_b, T_10, T_0>> >>,
                 << <<T_05, T_5, T_3>> >> }
ColumnOrders == {p \in [1..3 -> 1..3] : \A i, j \in 1..3 : i # j => p[i] # p[j]}
\* Where the column Z goes: 0 for no such column, 1 for the first place, 4 for
\* the place after the others.
ExtraAt == {0, 1, 4}
\* Which of the three columns is left out: 0 for none.
Drops == 0..3

InsertAt(line, at, cell) ==
    IF at = 0 THEN line
    ELSE LET k == IF at - 1 < Len(line) THEN at - 1 ELSE Len(line)
         IN SubSeq(line, 1, k) \o <<cell>> \o SubSeq(line, k + 1, Len(line))

ArrangeLine(cells, order, at, extra, drop) ==
    LET kept == SelectSeq([j \in 1..3 |-> order[j]], LAMBDA k : k # drop)
    IN InsertAt([j \in 1..Len(kept) |-> cells[kept[j]]], at, extra)

HeaderVariant(table, names, order, at, drop) ==
    <<ArrangeLine(names, order, at, H_Z, drop)>>
    \o [r \in 1..Len(table) |-> ArrangeLine(table[r], order, at, T_q, drop)]

\* The same table under the canonical header.
CanonFile(table) == <<CanonNames>> \o table

HeaderVariants ==
    {HeaderVariant(t, names, order, at, drop) :
        t \in PointTables, names \in HeaderNames, order \in ColumnOrders,
        at \in ExtraAt, drop \in Drops}

\* pd.read_csv: with a header the first line names the columns; without,
\* the names are Cell_ID, X, Y and, when the lines hold more than three
\* cells, the leading surplus cells become the index and are no column.
\* A file without any line raises (ok = FALSE).
read_csv(lines, has_header) ==
    IF Len(lines) = 0 THEN [ok |-> FALSE, columns |-> <<>>, data |-> <<>>]
    ELSE IF has_header
         THEN [ok |-> TRUE, columns |-> lines[1], data |-> Tail(lines)]
         ELSE LET n == Len(lines[1])
                  skip == IF n > 3 THEN n - 3 ELSE 0
              IN [ok |-> TRUE, columns |-> <<H_Cell_ID, H_X, H_Y>>,
                  data |-> [r \in 1..Len(lines) |-> SubSeq(lines[r], skip + 1, n)]]

\* The lookup of a column without lower(): a column is found only under the
\* very spelling of the key.
ColOfExact(columns, key) ==
    LET hits == {j \in 1..Len(columns) : columns[j] = key}
    IN IF hits = {} THEN 0 ELSE CHOOSE j \in hits : \A k \in hits : k <= j

\* cols = {c.lower(): c for c in df.columns}: for equal lower-cased names the
\* last column wins; 0 when no column has the key.
ColOf(columns, key) ==
    LET hits == {j \in 1..Len(columns) : Lower(columns[j]) = key}
    IN IF hits = {} THEN 0 ELSE CHOOSE j \in hits : \A k \in hits : k <= j

\* pandas type inference: a column whose every cell is an integer literal is
\* numeric, any other column keeps the text of its cells.
ColNumeric(data, j) == \A r \in 1..Len(data) : PyInt(data[r][j]).ok

\* A coordinate cell of the stored records: a number or a text.
Coord(data, r, j) ==
    IF ColNumeric(data, j) THEN [num |-> TRUE, n |-> PyInt(data[r][j]).val, s |-> <<>>]
    ELSE [num |-> FALSE, n |-> 0, s |-> data[r][j]]

\* str(n) for an integer.
PyStr(n) == IF n < 0 THEN <<"-">> \o ToDigits(0 - n) ELSE ToDigits(n)

\* df["Cell_ID"].astype(str): a numeric column is printed back from its
\* numbers, a text column is kept.
IdText(data, r, j) ==
    IF ColNumeric(data, j) THEN PyStr(PyInt(data[r][j]).val) ELSE data[r][j]

parse_csv(contents, has_header) ==
    LET df == read_csv(contents, has_header)
        ci == ColOf(df.columns, Lower(H_Cell_ID))
        cx == ColOf(df.columns, Lower(H_X))
        cy == ColOf(df.columns, Lower(H_Y))
    IN IF ~df.ok \/ ci = 0 \/ cx = 0 \/ cy = 0
       THEN [ok |-> FALSE, records |-> <<>>]
       ELSE [ok |-> TRUE,
             records |-> [r \in 1..Len(df.data) |->
                            [Cell_ID |-> IdText(df.data, r, ci),
                             X |-> Coord(df.data, r, cx),
                             Y |-> Coord(df.data, r, cy)]]]

\* ----------------------------------------------------------------- state
VARIABLES
    df_store,        \* dcc.Store "df-store": None or the list of point records
    assign_store,    \* dcc.Store "assign-store": None or the map id -> assignment
    rows,            \* DataTable "groups-table".data
    selected_rows,   \* DataTable "groups-table".selected_rows
    palette_choice,  \* RadioItems "palette-choice".value
    status_msg,      \* Div "status-msg": "" or "CSV error"
    figure,          \* Graph "spots-graph".figure
    img_store,       \* dcc.Store "img-store": None or the uploaded image
    img_meta_store,  \* dcc.Store "img-meta-store": None or [image, width, height]
    img_x,           \* Slider "img-x".value, in percent
    img_y,           \* Slider "img-y".value, in percent
    img_scale,       \* Slider "img-scale".value, in units of 1/ScaleDen
    inflight,        \* the callback requests sent and not yet answered
    origin,          \* history: id -> the table row its assignment was copied from
    last,            \* the event handled last, its inputs and its response
    activated,       \* history: the row whose radio button was clicked last (0: none)
    gestures         \* history: number of selection gestures so far

vars == <<df_store, assign_store, rows, selected_rows, palette_choice,
          status_msg, figure, img_store, img_meta_store, img_x, img_y, img_scale,
          inflight, origin, last, activated, gestures>>

\* The stores and sliders of the background image.
imgvars == <<img_store, img_meta_store, img_x, img_y, img_scale>>

\* The empty dict.
EmptyMap == [k \in {} |-> 0]

\* Python None for a store that otherwise holds a list / a dict.
NoRecords == [none |-> TRUE, records |-> <<>>]
Records(rs) == [none |-> FALSE, records |-> rs]
NoMap == [none |-> TRUE, map |-> EmptyMap]
Map(m) == [none |-> FALSE, map |-> m]

\* Python truthiness of the two stores: None and the empty container are false.
Truthy(store) == ~store.none /\ DOMAIN store.map # {}

\* ---------------------------------------------------------------- figure
\* Coordinates of the figure are kept as multiples of 1/PadDen, the padding
\* of the code being 0.05 = 1/PadDen of the span.
PadDen == 20

SeqMin(f, n) == CHOOSE v \in {f[i] : i \in 1..n} : \A i \in 1..n : v <= f[i]
SeqMax(f, n) == CHOOSE v \in {f[i] : i \in 1..n} : \A i \in 1..n : v >= f[i]

\* xr = [lo - 0.05*(hi-lo), hi + 0.05*(hi-lo)], in units of 1/PadDen.
PaddedRange(lo, hi) ==
    LET d == hi - lo
    IN <<PadDen * lo - d, PadDen * hi + d>>

EmptyFigure ==
    [customdata |-> <<>>, colors |-> <<>>, hover |-> <<>>,
     xr |-> PaddedRange(0, 100), yr |-> PaddedRange(0, 100), images |-> <<>>]

\* Python None for the two image stores.
NoImage == [none |-> TRUE, contents |-> ""]
NoImageMeta == [none |-> TRUE, contents |-> "", w |-> 0, h |-> 0]

\* The slider "img-scale" counts in steps of 0.01 = 1/ScaleDen.
ScaleDen == 100

\* The layout images of a figure with the ranges xr, yr: none, or the one
\* fig.add_layout_image adds.  xr and yr come in units of 1/PadDen, the
\* percentages in 1/100 and the scale in 1/ScaleDen: x and y are in units of
\* 1/(100 * PadDen), sizex in units of 1/(ScaleDen * PadDen), and
\* sizey = sizex * (nat_h / nat_w) is kept as the fraction <<sizex * nat_h, nat_w>>.
add_layout_image(xr, yr, bg_image, img_meta, img_x_pct, img_y_pct, scale) ==
    IF ~bg_image.none /\ ~img_meta.none
    THEN LET sizex == (xr[2] - xr[1]) * scale
         IN << [source |-> bg_image.contents,
                x |-> 100 * xr[1] + (xr[2] - xr[1]) * img_x_pct,
                y |-> 100 * yr[1] + (yr[2] - yr[1]) * img_y_pct,
                sizex |-> sizex,
                sizey |-> <<sizex * img_meta.h, img_meta.w>>] >>
    ELSE <<>>

\* build_figure: ok = FALSE when the code raises (arithmetic on text cells).
\* point_size and img_opacity are copied into the figure and left out here.
build_figure(df, assign_map, bg_image, img_meta, img_x_pct, img_y_pct, scale) ==
    IF df.none \/ Len(df.records) = 0
    THEN [ok |-> TRUE,
          fig |-> [EmptyFigure EXCEPT
                     !.images = add_layout_image(EmptyFigure.xr, EmptyFigure.yr,
                                    bg_image, img_meta, img_x_pct, img_y_pct, scale)]]
    ELSE
      LET recs == df.records
          n == Len(recs)
          hit(i) == DOMAIN assign_map # {} /\ recs[i].Cell_ID \in DOMAIN assign_map
          colors == [i \in 1..n |->
                       IF hit(i) THEN assign_map[recs[i].Cell_ID].Color ELSE "#A0A0A0"]
          hover == [i \in 1..n |->
                      IF hit(i)
                      THEN [Cell |-> recs[i].Cell_ID,
                            Group |-> assign_map[recs[i].Cell_ID].Group,
                            HasCustom |-> TRUE,
                            Custom |-> assign_map[recs[i].Cell_ID].Custom]
                      ELSE [Cell |-> recs[i].Cell_ID, Group |-> <<>>,
                            HasCustom |-> FALSE, Custom |-> ""]]
          numeric == \A i \in 1..n : recs[i].X.num /\ recs[i].Y.num
          xs == [i \in 1..n |-> recs[i].X.n]
          ys == [i \in 1..n |-> recs[i].Y.n]
          xr == PaddedRange(SeqMin(xs, n), SeqMax(xs, n))
          yr == PaddedRange(SeqMin(ys, n), SeqMax(ys, n))
      IN IF ~numeric THEN [ok |-> FALSE, fig |-> EmptyFigure]
         ELSE [ok |-> TRUE,
               fig |-> [customdata |-> [i \in 1..n |-> recs[i].Cell_ID],
                        colors |-> colors, hover |-> hover,
                        xr |-> xr, yr |-> yr,
                        images |-> add_layout_image(xr, yr, bg_image, img_meta,
                                      img_x_pct, img_y_pct, scale)]]

update_plot(dfrec, assign_map, bg_img, img_meta, x_pct, y_pct, scale) ==
    IF dfrec.none
    THEN build_figure(NoRecords, EmptyMap, bg_img, img_meta, x_pct, y_pct, scale)
    ELSE build_figure(dfrec, IF assign_map.none THEN EmptyMap ELSE assign_map.map,
                      bg_img, img_meta, x_pct, y_pct, scale)

\* The graph after its inputs changed: the new figure, or the one already
\* shown when the callback raised.
Shows(fig, r) == IF r.ok THEN r.fig ELSE fig

\* The graph after df-store or assign-store changed.
Render(fig, dfrec, assign_map) ==
    Shows(fig, update_plot(dfrec, assign_map, img_store, img_meta_store,
                           img_x, img_y, img_scale))

\* ------------------------------------------------------------- callbacks
\* handle_csv: the new value of df-store and of status-msg.  The branch for
\* empty contents runs once, when the page opens, and gives the initial state.
handle_csv(contents, has_header) ==
    LET r == parse_csv(contents, has_header)
    IN IF r.ok THEN [data |-> Records(r.records), msg |-> ""]
       ELSE [data |-> NoRecords, msg |-> "CSV error"]

\* The row index update_palette derives from an assignment:
\* int(info["Group"].split()[-1]) - 1; ok = FALSE when split() is empty
\* (IndexError) or the last token is no integer (ValueError).
GroupIdx(group) ==
    LET toks == Split(group)
    IN IF Len(toks) = 0 THEN [ok |-> FALSE, val |-> 0]
       ELSE LET k == PyInt(toks[Len(toks)])
            IN IF k.ok THEN [ok |-> TRUE, val |-> k.val - 1]
               ELSE [ok |-> FALSE, val |-> 0]

\* update_palette: ok = FALSE when the callback raises, and then neither
\* output is written.
update_palette(palette, rws, assign_map) ==
    LET colors == PALETTES[palette]
        new_rows == [i \in 1..Len(rws) |->
                       [GroupName |-> rws[i].GroupName,
                        CustomName |-> rws[i].CustomName,
                        Color |-> colors[i]]]
        rows_ok == Len(rws) <= Len(colors)
        map_ok == \A cid \in DOMAIN assign_map.map : GroupIdx(assign_map.map[cid].Group).ok
        new_map == [cid \in DOMAIN assign_map.map |->
                      [Group |-> assign_map.map[cid].Group,
                       Custom |-> assign_map.map[cid].Custom,
                       Color |-> colors[(GroupIdx(assign_map.map[cid].Group).val
                                          % Len(colors)) + 1]]]
    IN IF ~rows_ok THEN [ok |-> FALSE, rows |-> rws, assign_map |-> assign_map]
       ELSE IF ~Truthy(assign_map)
            THEN [ok |-> TRUE, rows |-> new_rows, assign_map |-> assign_map]
       ELSE IF ~map_ok THEN [ok |-> FALSE, rows |-> rws, assign_map |-> assign_map]
       ELSE [ok |-> TRUE, rows |-> new_rows, assign_map |-> Map(new_map)]

\* decode_image of an uploaded image: ok = FALSE when Image.open raises.
decode_image(contents) ==
    [ok |-> contents.opens, contents |-> contents.data,
     w |-> contents.w, h |-> contents.h]

\* handle_image: the new values of img-store and img-meta-store; ok = FALSE
\* when the callback raises, and then neither store is written.
handle_image(contents) ==
    LET d == decode_image(contents)
    IN [ok |-> d.ok,
        img |-> [none |-> FALSE, contents |-> d.contents],
        meta |-> [none |-> FALSE, contents |-> d.contents, w |-> d.w, h |-> d.h]]

\* A selection event of the graph: None, or the ids of the selected points.
NoSelection == [none |-> TRUE, points |-> {}]
Selection(ids) == [none |-> FALSE, points |-> ids]

\* assign_groups with setdefault in place of the assignment: an id that has an
\* assignment keeps it.
assign_groups_keep(selected, sel_rows, rws, assign_map) ==
    IF selected.none \/ Len(sel_rows) = 0 THEN assign_map
    ELSE LET idx == sel_rows[1]
             old == IF assign_map.none THEN EmptyMap ELSE assign_map.map
             snap == [Group |-> rws[idx].GroupName,
                      Custom |-> rws[idx].CustomName,
                      Color |-> rws[idx].Color]
         IN Map([cid \in DOMAIN old \cup selected.points |->
                    IF cid \in DOMAIN old THEN old[cid] ELSE snap])

\* assign_groups without the test of sel_rows: with no row selected the first
\* row is the target.
assign_groups_first_row(selected, sel_rows, rws, assign_map) ==
    IF selected.none THEN assign_map
    ELSE LET idx == IF Len(sel_rows) = 0 THEN 1 ELSE sel_rows[1]
             old == IF assign_map.none THEN EmptyMap ELSE assign_map.map
             snap == [Group |-> rws[idx].GroupName,
                      Custom |-> rws[idx].CustomName,
                      Color |-> rws[idx].Color]
         IN Map([cid \in DOMAIN old \cup selected.points |->
                    IF cid \in selected.points THEN snap ELSE old[cid]])

\* assign_groups: the new value of assign-store.  sel_rows holds 1-based rows.
assign_groups(selected, sel_rows, rws, assign_map) ==
    IF selected.none \/ Len(sel_rows) = 0 THEN assign_map
    ELSE LET idx == sel_rows[1]
             old == IF assign_map.none THEN EmptyMap ELSE assign_map.map
             snap == [Group |-> rws[idx].GroupName,
                      Custom |-> rws[idx].CustomName,
                      Color |-> rws[idx].Color]
         IN Map([cid \in DOMAIN old \cup selected.points |->
                    IF cid \in selected.points THEN snap ELSE old[cid]])

\* group_to_custom = {row["Group Name"]: row["Custom Name"] ...}.get(g, ""):
\* the last row of that name wins.
GroupToCustom(groups_data, g) ==
    LET hits == {i \in 1..Len(groups_data) : groups_data[i].GroupName = g}
    IN IF hits = {} THEN ""
       ELSE groups_data[CHOOSE i \in hits : \A k \in hits : k <= i].CustomName

NoDownload == [none |-> TRUE, table |-> <<>>]

\* export_csv looping over the assignments instead of the points: one row per
\* assigned id, in no order of the point set.
export_csv_by_store(assign_map, dfrec, groups_data) ==
    IF dfrec.none \/ Len(dfrec.records) = 0 THEN NoDownload
    ELSE LET ids == DOMAIN assign_map.map
             RECURSIVE Rows(_)
             Rows(S) == IF S = {} THEN <<>>
                        ELSE LET cid == CHOOSE c \in S : TRUE
                             IN <<[Cell_ID |-> cid,
                                   Group |-> assign_map.map[cid].Group,
                                   CustomName |-> GroupToCustom(groups_data,
                                                     assign_map.map[cid].Group),
                                   Color |-> assign_map.map[cid].Color]>>
                                \o Rows(S \ {cid})
         IN [none |-> FALSE, table |-> Rows(ids)]

\* export_csv: None, or the table handed to to_csv.
export_csv(assign_map, dfrec, groups_data) ==
    IF dfrec.none \/ Len(dfrec.records) = 0 THEN NoDownload
    ELSE [none |-> FALSE,
          table |-> [i \in 1..Len(dfrec.records) |->
             LET cid == dfrec.records[i].Cell_ID
             IN IF Truthy(assign_map) /\ cid \in DOMAIN assign_map.map
                THEN [Cell_ID |-> cid,
                      Group |-> assign_map.map[cid].Group,
                      CustomName |-> GroupToCustom(groups_data, assign_map.map[cid].Group),
                      Color |-> assign_map.map[cid].Color]
                ELSE [Cell_ID |-> cid, Group |-> <<>>, CustomName |-> "",
                      Color |-> UNASSIGNED_COLOR]]]

\* --------------------------------------------------------- user's inputs
N_Alpha == <<"A", "l", "p", "h", "a">>

\* The rows whose radio button the user clicks.
ClickRows == {1, 2}
\* The rows whose cells the user edits.
EditRows == {1}
\* What the user types into a "Group Name" cell: a name without a number,
\* and the name of another row.
NameInputs == {N_Alpha, GroupName(2)}
\* What the user types into a "Custom Name" cell.
CustomInputs == {"L"}
\* What the user types into a "Color" cell.
ColorInputs == {"#FF0000"}
\* The file the annotation is done on, and the files of the loading scenario.
AnnotatedUploads == {FileCanon}
\* The "CSV has header" box at the time of an upload.
HeaderFlags == {TRUE, FALSE}

\* The images the user uploads, each with what Image.open finds in it: a
\* picture two wide and one high, one one wide and two high, and a file that
\* is no picture.
ImageUploads ==
    {[data |-> "wide.png", opens |-> TRUE, w |-> 2, h |-> 1],
     [data |-> "tall.png", opens |-> TRUE, w |-> 1, h |-> 2],
     [data |-> "notes.txt", opens |-> FALSE, w |-> 0, h |-> 0]}
\* Where the user moves the sliders "img-x" and "img-y" (0 to 100, at 50
\* when the page opens).
PercentInputs == {0, 100}
\* The values of img_scale handed to update_plot, which passes on what the
\* request holds: 0.05 and 4.0, the ends of the slider "img-scale", and the
\* values 0 and -0.5, which build_figure accepts and the slider does not offer.
ScaleInputs == {5, 400, 0, -50}

\* An event: which callback ran (op), the file it was given (contents; <<>>
\* when it takes none), the selection it was given (none, sel),
\* the table row it concerned (row; 0: no row), whether it raised (failed),
\* the ids whose earlier assignment a gesture replaced by a different one
\* (replaced) and, for an export, the table sent to the browser (download).
Event(op) == [op |-> op, contents |-> <<>>, sel |-> {}, none |-> FALSE, row |-> 0,
              failed |-> FALSE, replaced |-> {}, download |-> NoDownload]

\* ------------------------------------------------------------------ Init
Init ==
    /\ df_store = NoRecords
    /\ assign_store = NoMap
    /\ rows = make_groups("Tableau10")
    /\ selected_rows = <<>>
    /\ palette_choice = "Tableau10"
    /\ status_msg = ""
    /\ figure = EmptyFigure
    /\ img_store = NoImage
    /\ img_meta_store = NoImageMeta
    /\ img_x = 50
    /\ img_y = 50
    /\ img_scale = 50
    /\ inflight = {}
    /\ origin = EmptyMap
    /\ last = Event("init")
    /\ activated = 0
    /\ gestures = 0

\* --------------------------------------------------------------- actions
\* The user drops a file on "upload-csv", the "CSV has header" box being
\* ticked or not: handle_csv, then update_plot.
UploadCsv(file, has_header) ==
    LET out == handle_csv(file, has_header)
    IN /\ df_store' = out.data
       /\ status_msg' = out.msg
       /\ figure' = Render(figure, out.data, assign_store)
       /\ last' = [Event("csv") EXCEPT !.contents = file, !.failed = (out.msg # "")]
       /\ UNCHANGED <<assign_store, rows, selected_rows, palette_choice,
                      origin, activated, gestures>>
       /\ UNCHANGED <<imgvars, inflight>>

\* The click on row k with row_selectable="multi": the row joins the selection.
SelectRowMulti(k) ==
    /\ \A i \in 1..Len(selected_rows) : selected_rows[i] # k
    /\ selected_rows' = Append(selected_rows, k)
    /\ activated' = k
    /\ last' = [Event("row") EXCEPT !.row = k]
    /\ UNCHANGED <<df_store, assign_store, rows, palette_choice,
                   status_msg, figure, origin, gestures>>
    /\ UNCHANGED <<imgvars, inflight>>

\* The user clicks the radio button of row k (row_selectable="single": the
\* clicked row replaces the selection).
SelectRow(k) ==
    /\ selected_rows # <<k>>
    /\ selected_rows' = <<k>>
    /\ activated' = k
    /\ last' = [Event("row") EXCEPT !.row = k]
    /\ UNCHANGED <<df_store, assign_store, rows, palette_choice,
                   status_msg, figure, origin, gestures>>
    /\ UNCHANGED <<imgvars, inflight>>

\* The user edits one cell of the groups table (editable=True).
EditCell(k, col, val) ==
    /\ \/ col = "Group Name" /\ val # rows[k].GroupName
          /\ rows' = [rows EXCEPT ![k].GroupName = val]
       \/ col = "Custom Name" /\ val # rows[k].CustomName
          /\ rows' = [rows EXCEPT ![k].CustomName = val]
       \/ col = "Color" /\ val # rows[k].Color
          /\ rows' = [rows EXCEPT ![k].Color = val]
    /\ last' = [Event("edit") EXCEPT !.row = k]
    /\ UNCHANGED <<df_store, assign_store, selected_rows, palette_choice,
                   status_msg, figure, origin, activated, gestures>>
    /\ UNCHANGED <<imgvars, inflight>>

\* The user picks another palette: update_palette, then update_plot.
ChoosePalette(p) ==
    LET out == update_palette(p, rows, assign_store)
    IN /\ p # palette_choice
       /\ palette_choice' = p
       /\ rows' = out.rows
       /\ assign_store' = out.assign_map
       /\ figure' = IF out.ok THEN Render(figure, df_store, out.assign_map) ELSE figure
       /\ last' = [Event("palette") EXCEPT !.failed = ~out.ok]
       /\ UNCHANGED <<df_store, selected_rows, status_msg, origin, activated, gestures>>
       /\ UNCHANGED <<imgvars, inflight>>

\* The user lassoes points of the figure, or clears the selection:
\* assign_groups, then update_plot.
Gesture(selected) ==
    LET out == assign_groups(selected, selected_rows, rows, assign_store)
        acts == ~selected.none /\ Len(selected_rows) > 0
    IN /\ gestures < MaxGestures
       /\ gestures' = gestures + 1
       /\ assign_store' = out
       /\ figure' = Render(figure, df_store, out)
       /\ origin' = IF acts
                    THEN [cid \in DOMAIN origin \cup selected.points |->
                            IF cid \in selected.points THEN selected_rows[1]
                            ELSE origin[cid]]
                    ELSE origin
       /\ last' = [Event("assign") EXCEPT
                     !.sel = selected.points, !.none = selected.none,
                     !.row = IF Len(selected_rows) > 0 THEN selected_rows[1] ELSE 0,
                     !.replaced = {cid \in selected.points \cap DOMAIN assign_store.map :
                                     assign_store.map[cid] # out.map[cid]}]
       /\ UNCHANGED <<df_store, rows, selected_rows, palette_choice,
                      status_msg, activated>>
       /\ UNCHANGED <<imgvars, inflight>>

\* A callback request in flight: the browser has read the Input and State
\* values and sent them, and the outputs the callback computes from them
\* (store, rows; ok = FALSE when it raises) are written when the response
\* arrives.  sel, none and row are the inputs of assign_groups.
Request(op, ok, store, rws, selected, row) ==
    [op |-> op, ok |-> ok, store |-> store, rows |-> rws,
     sel |-> selected.points, none |-> selected.none, row |-> row]

\* The user lassoes points: the request of assign_groups leaves with the
\* State values of this moment.
SendGesture(selected) ==
    /\ gestures < MaxGestures
    /\ \A r \in inflight : r.op # "assign"
    /\ gestures' = gestures + 1
    /\ inflight' = inflight \cup
          {Request("assign", TRUE,
                   assign_groups(selected, selected_rows, rows, assign_store), rows,
                   selected, IF Len(selected_rows) > 0 THEN selected_rows[1] ELSE 0)}
    /\ last' = Event("send")
    /\ UNCHANGED <<df_store, assign_store, rows, selected_rows, palette_choice,
                   status_msg, figure, imgvars, origin, activated>>

\* The user picks another palette: the request of update_palette leaves with
\* the State values of this moment.
SendPalette(p) ==
    LET out == update_palette(p, rows, assign_store)
    IN /\ p # palette_choice
       /\ \A r \in inflight : r.op # "palette"
       /\ palette_choice' = p
       /\ inflight' = inflight \cup
             {Request("palette", out.ok, out.assign_map, out.rows, NoSelection, 0)}
       /\ last' = Event("send")
       /\ UNCHANGED <<df_store, assign_store, rows, selected_rows, status_msg,
                      figure, imgvars, origin, activated, gestures>>

\* The response of a request arrives: its outputs are written, then
\* update_plot runs.
Receive(r) ==
    LET acts == r.op = "assign" /\ ~r.none /\ r.row # 0
        store == IF r.ok THEN r.store ELSE assign_store
    IN /\ r \in inflight
       /\ inflight' = inflight \ {r}
       /\ assign_store' = store
       /\ rows' = IF r.op = "palette" /\ r.ok THEN r.rows ELSE rows
       /\ figure' = IF r.ok THEN Render(figure, df_store, store) ELSE figure
       /\ origin' = IF acts
                    THEN [cid \in DOMAIN origin \cup r.sel |->
                            IF cid \in r.sel THEN r.row ELSE origin[cid]]
                    ELSE origin
       /\ last' = [Event(r.op) EXCEPT
                     !.sel = r.sel, !.none = r.none, !.row = r.row, !.failed = ~r.ok,
                     !.replaced = {cid \in r.sel \cap DOMAIN assign_store.map :
                                     assign_store.map[cid] # store.map[cid]}]
       /\ UNCHANGED <<df_store, selected_rows, palette_choice, status_msg,
                      imgvars, activated, gestures>>

\* The user clicks "Export CSV": export_csv.
ClickExport ==
    /\ last' = [Event("export") EXCEPT
                  !.download = export_csv(assign_store, df_store, rows)]
    /\ UNCHANGED <<df_store, assign_store, rows, selected_rows, palette_choice,
                   status_msg, figure, origin, activated, gestures>>
    /\ UNCHANGED <<imgvars, inflight>>

\* The user drops a file on "upload-img": handle_image, then update_plot.
UploadImg(contents) ==
    LET out == handle_image(contents)
    IN /\ img_store' = IF out.ok THEN out.img ELSE img_store
       /\ img_meta_store' = IF out.ok THEN out.meta ELSE img_meta_store
       /\ figure' = IF out.ok
                    THEN Shows(figure, update_plot(df_store, assign_store, out.img,
                                          out.meta, img_x, img_y, img_scale))
                    ELSE figure
       /\ last' = [Event("image") EXCEPT !.failed = ~out.ok]
       /\ UNCHANGED <<df_store, assign_store, rows, selected_rows, palette_choice,
                      status_msg, img_x, img_y, img_scale, inflight, origin, activated, gestures>>

\* The value of "img-x" changes: update_plot.
SetImgX(v) ==
    /\ v # img_x
    /\ img_x' = v
    /\ figure' = Shows(figure, update_plot(df_store, assign_store, img_store,
                                  img_meta_store, v, img_y, img_scale))
    /\ last' = Event("img-x")
    /\ UNCHANGED <<df_store, assign_store, rows, selected_rows, palette_choice,
                   status_msg, img_store, img_meta_store, img_y, img_scale,
                   inflight, origin, activated, gestures>>

\* The value of "img-y" changes: update_plot.
SetImgY(v) ==
    /\ v # img_y
    /\ img_y' = v
    /\ figure' = Shows(figure, update_plot(df_store, assign_store, img_store,
                                  img_meta_store, img_x, v, img_scale))
    /\ last' = Event("img-y")
    /\ UNCHANGED <<df_store, assign_store, rows, selected_rows, palette_choice,
                   status_msg, img_store, img_meta_store, img_x, img_scale,
                   inflight, origin, activated, gestures>>

\* The value of "img-scale" changes: update_plot.
SetImgScale(v) ==
    /\ v # img_scale
    /\ img_scale' = v
    /\ figure' = Shows(figure, update_plot(df_store, assign_store, img_store,
                                  img_meta_store, img_x, img_y, v))
    /\ last' = Event("img-scale")
    /\ UNCHANGED <<df_store, assign_store, rows, selected_rows, palette_choice,
                   status_msg, img_store, img_meta_store, img_x, img_y,
                   inflight, origin, activated, gestures>>

\* The ids of the points the graph shows, which a gesture can select.
Shown == {figure.customdata[i] : i \in 1..Len(figure.customdata)}

\* Annotating one point set: every callback, on the canonical file.
Next ==
    \/ \E file \in AnnotatedUploads : UploadCsv(file, TRUE)
    \/ \E k \in ClickRows : SelectRow(k)
    \/ \E k \in EditRows, val \in NameInputs : EditCell(k, "Group Name", val)
    \/ \E k \in EditRows, val \in CustomInputs : EditCell(k, "Custom Name", val)
    \/ \E p \in PaletteNames : ChoosePalette(p)
    \/ \E ids \in SUBSET Shown : Gesture(Selection(ids))
    \/ Gesture(NoSelection)
    \/ ClickExport

Spec == Init /\ [][Next]_vars

\* Loading and reloading files: every upload, with and without the header
\* box, and the callbacks that read the point set.
NextLoad ==
    \/ \E file \in Uploads, h \in HeaderFlags : UploadCsv(file, h)
    \/ \E k \in ClickRows : SelectRow(k)
    \/ \E ids \in SUBSET Shown : Gesture(Selection(ids))
    \/ Gesture(NoSelection)
    \/ ClickExport

SpecLoad == Init /\ [][NextLoad]_vars

\* Placing a background image: the image upload and its sliders, with and
\* without a point set.
NextImage ==
    \/ \E file \in AnnotatedUploads : UploadCsv(file, TRUE)
    \/ \E contents \in ImageUploads : UploadImg(contents)
    \/ \E v \in PercentInputs : SetImgX(v)
    \/ \E v \in PercentInputs : SetImgY(v)
    \/ \E v \in ScaleInputs : SetImgScale(v)

SpecImage == Init /\ [][NextImage]_vars

\* Editing the table between selections and palette swaps: the names and the
\* colours of the rows.
NextEdit ==
    \/ \E file \in AnnotatedUploads : UploadCsv(file, TRUE)
    \/ \E k \in ClickRows : SelectRow(k)
    \/ \E k \in EditRows, val \in NameInputs : EditCell(k, "Group Name", val)
    \/ \E k \in EditRows, val \in ColorInputs : EditCell(k, "Color", val)
    \/ \E p \in PaletteNames : ChoosePalette(p)
    \/ \E ids \in SUBSET Shown : Gesture(Selection(ids))
    \/ Gesture(NoSelection)

SpecEdit == Init /\ [][NextEdit]_vars

\* Requests and responses apart: a gesture and a palette swap may both be
\* under way, and their responses arrive in either order.
NextRace ==
    \/ \E file \in AnnotatedUploads : UploadCsv(file, TRUE)
    \/ \E k \in ClickRows : SelectRow(k)
    \/ \E ids \in SUBSET Shown : SendGesture(Selection(ids))
    \/ \E p \in PaletteNames : SendPalette(p)
    \/ \E r \in inflight : Receive(r)

SpecRace == Init /\ [][NextRace]_vars

\* Loading files whose header is spelled and ordered in every way.
NextParse ==
    \E file \in HeaderVariants : UploadCsv(file, TRUE)

SpecParse == Init /\ [][NextParse]_vars

TypeOK ==
    /\ Len(rows) = DEFAULT_GROUPS
    /\ gestures <= MaxGestures

\* ---------------------------------------------------------------- claims
\* What the claims speak of.
PointIds == {df_store.records[i].Cell_ID : i \in 1..Len(df_store.records)}

Loaded(store) == ~store.none /\ Len(store.records) > 0

\* The copy of table row k an assignment takes.
SnapshotOf(rws, k) ==
    [Group |-> rws[k].GroupName, Custom |-> rws[k].CustomName, Color |-> rws[k].Color]

\* The step is a selection gesture that has points and finds a row active.
ActingGesture == last'.op = "assign" /\ ~last'.none /\ last'.row # 0

\* The export of the current state.
ExportNow == export_csv(assign_store, df_store, rows)

\* C1: with a point set loaded, a gesture with selection S while row G is
\* active, followed at once by an export, gives every id of S a row with G's
\* current name and colour, and leaves the row of every other point as an
\* export before the gesture would have given it.
C1_AssignThenExport ==
    [][(ActingGesture /\ Loaded(df_store)) =>
         LET before == export_csv(assign_store, df_store, rows).table
             after == export_csv(assign_store', df_store', rows').table
         IN /\ \A cid \in last'.sel :
                 \E i \in 1..Len(after) :
                    /\ after[i].Cell_ID = cid
                    /\ after[i].Group = rows[last'.row].GroupName
                    /\ after[i].Color = rows[last'.row].Color
            /\ \A i \in 1..Len(after) :
                 after[i].Cell_ID \notin last'.sel => after[i] = before[i]]_vars

\* C2: a gesture gives every selected id the snapshot of the active row, in
\* place of whatever the id had, and leaves the assignment of every other id
\* as it was: an id holds the snapshot of the last gesture that selected it.
C2_LastGestureWins ==
    [][ActingGesture =>
         /\ ~assign_store'.none
         /\ DOMAIN assign_store'.map = DOMAIN assign_store.map \cup last'.sel
         /\ \A cid \in DOMAIN assign_store'.map :
              assign_store'.map[cid] =
                 IF cid \in last'.sel THEN SnapshotOf(rows, last'.row)
                 ELSE assign_store.map[cid]]_vars

\* A gesture has replaced an id's assignment to one row by another row's.
C2_Witness ==
    /\ last.op = "assign"
    /\ \E cid \in last.replaced :
          /\ assign_store.map[cid] = SnapshotOf(rows, last.row)
          /\ \E k \in ClickRows : k # last.row
    /\ \E cid \in DOMAIN assign_store.map : cid \notin last.sel

\* C3: a palette swap leaves the group of every assignment unchanged and sets
\* its colour to the new scheme's colour at the index of the row the
\* assignment was made from.
C3_SwapRecolorsByRow ==
    [][last'.op = "palette" =>
         \A cid \in DOMAIN assign_store.map :
            /\ cid \in DOMAIN assign_store'.map
            /\ assign_store'.map[cid].Group = assign_store.map[cid].Group
            /\ assign_store'.map[cid].Color =
                  PALETTES[palette_choice'][origin[cid]]]_vars

\* C4: once the custom label of a row has been edited, an export shows that
\* label for every point assigned to the row.
C4_ExportShowsNewLabel ==
    last.op = "export" =>
       \A i \in 1..Len(last.download.table) :
          LET cid == last.download.table[i].Cell_ID
          IN (cid \in DOMAIN origin /\ rows[origin[cid]].CustomName # "") =>
                last.download.table[i].CustomName = rows[origin[cid]].CustomName

\* C5: an assignment resolves to the row it was made from whatever the row is
\* called now: in the store and in an export it carries that row's current
\* name, label and colour.
C5_JoinByRowIdentity ==
    /\ \A cid \in DOMAIN assign_store.map :
          assign_store.map[cid].Group = rows[origin[cid]].GroupName
    /\ \A i \in 1..Len(ExportNow.table) :
          LET cid == ExportNow.table[i].Cell_ID
          IN cid \in DOMAIN assign_store.map =>
               /\ ExportNow.table[i].Group = rows[origin[cid]].GroupName
               /\ ExportNow.table[i].CustomName = rows[origin[cid]].CustomName
               /\ ExportNow.table[i].Color = rows[origin[cid]].Color

\* C6: a failed CSV load leaves the point set, the assignments and the groups
\* table as they were.
C6_FailedLoadKeepsState ==
    [][(last'.op = "csv" /\ last'.failed) =>
         /\ df_store' = df_store
         /\ assign_store' = assign_store
         /\ rows' = rows]_vars

\* C7: a gesture made while no row is active leaves the assignment store as
\* it was.
C7_NoActiveRowNoChange ==
    [][(last'.op = "assign" /\ selected_rows = <<>>) =>
         assign_store' = assign_store]_vars

\* A gesture with points was handled while no row was active.
C7_Witness ==
    /\ last.op = "assign"
    /\ last.row = 0
    /\ last.sel # {}
    /\ Loaded(df_store)

\* C8: at most one row is active, and the row a gesture assigns to is the one
\* activated last.
C8_SingleActiveRow ==
    /\ Len(selected_rows) <= 1
    /\ (last.op = "assign" /\ ~last.none /\ activated # 0) =>
          \A cid \in last.sel : assign_store.map[cid] = SnapshotOf(rows, activated)

\* A gesture has assigned to a row activated after another row.
C8_Witness ==
    /\ last.op = "assign"
    /\ last.sel # {}
    /\ activated = 1
    /\ \E cid \in DOMAIN origin : origin[cid] = 2
    /\ \E cid \in last.sel : origin[cid] = 1

\* C9: an export has one row per point of the point set, in the order of the
\* point set, and the row of a point without assignment has an empty group, an
\* empty custom label and the colour #A0A0A0.
C9_ExportRowsArePoints ==
    last.op = "export" =>
       IF Loaded(df_store)
       THEN /\ ~last.download.none
            /\ Len(last.download.table) = Len(df_store.records)
            /\ \A i \in 1..Len(df_store.records) :
                 /\ last.download.table[i].Cell_ID = df_store.records[i].Cell_ID
                 /\ (df_store.records[i].Cell_ID \notin DOMAIN assign_store.map) =>
                       /\ last.download.table[i].Group = <<>>
                       /\ last.download.table[i].CustomName = ""
                       /\ last.download.table[i].Color = "#A0A0A0"
       ELSE last.download.none

\* An export of a point set with an assigned and an unassigned point, while
\* the store holds an id that is no point.
C9_Witness ==
    /\ last.op = "export"
    /\ ~last.download.none
    /\ \E cid \in PointIds : cid \in DOMAIN assign_store.map
    /\ \E cid \in PointIds : cid \notin DOMAIN assign_store.map
    /\ \E cid \in DOMAIN assign_store.map : cid \notin PointIds

\* C10: the box drawn for a non-empty point set has a positive width and a
\* positive height and contains every point.
C10_BoxNotDegenerate ==
    (Loaded(df_store) /\ Len(figure.customdata) = Len(df_store.records)
        /\ \A i \in 1..Len(df_store.records) :
              figure.customdata[i] = df_store.records[i].Cell_ID
              /\ df_store.records[i].X.num /\ df_store.records[i].Y.num) =>
       /\ figure.xr[1] < figure.xr[2]
       /\ figure.yr[1] < figure.yr[2]
       /\ \A i \in 1..Len(df_store.records) :
             /\ figure.xr[1] <= PadDen * df_store.records[i].X.n
             /\ PadDen * df_store.records[i].X.n <= figure.xr[2]
             /\ figure.yr[1] <= PadDen * df_store.records[i].Y.n
             /\ PadDen * df_store.records[i].Y.n <= figure.yr[2]

\* C11: the figure has an image layer only if an image is loaded and the
\* scale is greater than zero; with a scale of zero or less it has none, even
\* when an image is loaded.
C11_ImageLayerNeedsPositiveScale ==
    Len(figure.images) > 0 => (~img_store.none /\ img_scale > 0)

\* C12: a file with a non-numeric X or Y cell is not loaded: df-store never
\* holds a record whose X or Y is not a number.
C12_NoTextCoordinateStored ==
    \A i \in 1..Len(df_store.records) :
       df_store.records[i].X.num /\ df_store.records[i].Y.num

\* C13: a file with a header gives the point set of the same table under the
\* header Cell_ID,X,Y, however the three names are cased, in whatever order
\* the columns come and with or without a further column; a file whose
\* header lacks one of the three names is rejected.
C13_HeaderVariantsSamePointSet ==
    last.op = "csv" =>
       \A t \in PointTables, names \in HeaderNames, order \in ColumnOrders,
          at \in ExtraAt, drop \in Drops :
          last.contents = HeaderVariant(t, names, order, at, drop) =>
             IF drop = 0
             THEN /\ df_store = handle_csv(CanonFile(t), TRUE).data
                  /\ status_msg = ""
             ELSE /\ df_store.none
                  /\ status_msg = "CSV error"

\* A file whose header is not spelled canonically, with the columns
\* reordered and a column Z in front, has been loaded as the same points.
C13_Witness ==
    /\ last.op = "csv"
    /\ \E t \in PointTables, names \in HeaderNames, order \in ColumnOrders :
          /\ names # CanonNames
          /\ order # <<1, 2, 3>>
          /\ last.contents = HeaderVariant(t, names, order, 1, 0)
          /\ Loaded(df_store)
          /\ df_store = Records([r \in 1..Len(t) |->
                            [Cell_ID |-> IdText(t, r, 1),
                             X |-> Coord(t, r, 2), Y |-> Coord(t, r, 3)]])

\* C14: whatever selections, palette swaps and edits of the table's cells have
\* been made, an assignment whose group name is the name of a row of the
\* table has the colour that row has now.
C14_AssignmentHasRowColor ==
    \A cid \in DOMAIN assign_store.map :
       \A i \in 1..Len(rows) :
          rows[i].GroupName = assign_store.map[cid].Group =>
             assign_store.map[cid].Color = rows[i].Color

\* C15: a palette swap never raises: the last token of every stored group
\* name is an integer of 1 or more, every row of the table has a colour in
\* every scheme, and no swap has left the table and the store as they were.
C15_SwapNeverAborts ==
    /\ \A cid \in DOMAIN assign_store.map :
          /\ GroupIdx(assign_store.map[cid].Group).ok
          /\ GroupIdx(assign_store.map[cid].Group).val >= 0
    /\ \A p \in PaletteNames : Len(rows) <= Len(PALETTES[p])
    /\ last.op = "palette" => ~last.failed

\* C16: a palette swap gives row i of the table colour i of the new scheme
\* (counted modulo the length of the scheme) and changes nothing else: the
\* rows, their order, names and labels stay, and so do the assigned ids and
\* the group and label of every assignment.
C16_SwapChangesOnlyColors ==
    [][last'.op = "palette" =>
         LET colors == PALETTES[palette_choice']
         IN /\ Len(rows') = Len(rows)
            /\ \A i \in 1..Len(rows) :
                  /\ rows'[i].GroupName = rows[i].GroupName
                  /\ rows'[i].CustomName = rows[i].CustomName
                  /\ rows'[i].Color = colors[((i - 1) % Len(colors)) + 1]
            /\ assign_store'.none = assign_store.none
            /\ DOMAIN assign_store'.map = DOMAIN assign_store.map
            /\ \A cid \in DOMAIN assign_store.map :
                  /\ assign_store'.map[cid].Group = assign_store.map[cid].Group
                  /\ assign_store'.map[cid].Custom = assign_store.map[cid].Custom]_vars

\* C17: loading a file leaves the assignment store and the groups table as
\* they were; a point whose id was in the old point set and is in the new one
\* is drawn and exported with the assignment it had; an assignment whose id
\* is not in the new point set stays in the store and appears neither in the
\* figure nor in the export.
C17_LoadReplacesOnlyPoints ==
    [][last'.op = "csv" =>
         LET export == export_csv(assign_store', df_store', rows').table
             drawn == 1..Len(figure'.customdata)
         IN /\ assign_store' = assign_store
            /\ rows' = rows
            /\ \A i \in 1..Len(df_store'.records) :
                  LET cid == df_store'.records[i].Cell_ID
                  IN (cid \in PointIds /\ cid \in DOMAIN assign_store.map) =>
                        /\ \E j \in drawn :
                              /\ figure'.customdata[j] = cid
                              /\ figure'.colors[j] = assign_store.map[cid].Color
                              /\ figure'.hover[j].Group = assign_store.map[cid].Group
                        /\ export[i].Group = assign_store.map[cid].Group
                        /\ export[i].Color = assign_store.map[cid].Color
            /\ \A cid \in DOMAIN assign_store.map :
                  cid \notin PointIds' =>
                     /\ cid \in DOMAIN assign_store'.map
                     /\ \A j \in drawn : figure'.customdata[j] # cid
                     /\ \A i \in 1..Len(export) : export[i].Cell_ID # cid]_vars

\* C18: the two callbacks that write assign-store do not lose each other's
\* update: once the responses of a gesture and of a palette swap have both
\* arrived, the store holds every id a gesture has assigned, and every
\* assignment has the colour the chosen scheme gives its group.
C18_NoLostUpdate ==
    inflight = {} =>
       /\ DOMAIN origin \subseteq DOMAIN assign_store.map
       /\ \A cid \in DOMAIN assign_store.map :
             LET colors == PALETTES[palette_choice]
                 idx == GroupIdx(assign_store.map[cid].Group)
             IN idx.ok /\ assign_store.map[cid].Color =
                             colors[(idx.val % Len(colors)) + 1]

\* C19: the figure and the export agree: a point of the point set is drawn
\* in the colour of its export row, and the group of its hover text is the
\* group of its export row.
C19_RenderAgreesWithExport ==
    Loaded(df_store) =>
       \A i \in 1..Len(df_store.records) :
          \A j \in 1..Len(figure.customdata) :
             figure.customdata[j] = df_store.records[i].Cell_ID =>
                /\ figure.colors[j] = ExportNow.table[i].Color
                /\ figure.hover[j].Group = ExportNow.table[i].Group

====
